---- MODULE Spec2Model ----
(***************************************************************************)
(* Model of android::pdx::uds::Endpoint (libs/vr/libpdx_uds/               *)
(* service_endpoint.cpp): the channel table (channels_, channel_fd_to_id_, *)
(* last_channel_id_), the epoll set with its one-shot registrations, the   *)
(* listening socket, the cancel eventfd, and dispatch threads that call    *)
(* MessageReceive / MessageReply concurrently.  Clients and the kernel are *)
(* the environment.                                                        *)
(***************************************************************************)
EXTENDS Integers, Sequences, FiniteSets, TLC

\* ---------------------------------------------------------------- bounds
NWorkers == 2          \* dispatch threads calling MessageReceive
NConns == 2            \* client connections over the whole run
NFds == 2              \* descriptor numbers available for channel sockets
MaxSend == 2           \* requests the clients write over the whole run
MaxChannelId == 4      \* stands for std::numeric_limits<int32_t>::max()
MaxRefs == 2           \* handles a peer sends, or the service pushes, per message
MaxData == 1           \* WriteMessageData calls per message

\* ------------------------------------------------------- program constants
kMaxBackLogForSocketListen == 1
EINVAL == 22           \* the errno value behind ErrorStatus{EINVAL}
NoChannelId == -1      \* GetChannelId's "not found" result

Workers == 1..NWorkers
Conns == 1..NConns
Fds == 1..NFds
NoFd == 0
NoMsg == [cid |-> NoChannelId, op |-> "NONE", impulse |-> FALSE, mid |-> "none",
         send_len |-> 0]
\* A dispatch thread: pc is its position; fd, cid, msg and status are the
\* locals event.data.fd / channel_fd, channel_id, *message and status; via
\* tells which event source its wait call took and src which connection
\* that event (or accept) was about (0: none).
Idle == [pc |-> "idle", via |-> "none", src |-> 0, fd |-> NoFd,
         cid |-> NoChannelId, msg |-> NoMsg, status |-> "OK"]

VARIABLES
  channels,            \* channels_: id -> [data_fd, channel_state, event_fd,
                       \*   event_bits]
  channel_fd_to_id,    \* channel_fd_to_id_: socket fd -> id
  last_channel_id,     \* last_channel_id_
  epoll,               \* epoll_fd_: registered channel fd -> armed?
  listen_armed,        \* one-shot interest of socket_fd_ in epoll_fd_
  cancel_event,        \* cancel_event_fd_ counter is non-zero
  is_blocking,         \* is_blocking_
  backlog,             \* connections queued on socket_fd_
  conn,                \* per connection: socket state seen by the endpoint
  scan_steps,          \* iterations of the id scan in the last registration
  th,                  \* per dispatch thread: position and locals
  mstate,              \* MessageState of the message the service is handling
  wire,                \* replies written to channel sockets, oldest first
  result               \* what the last call of the service returned

vars == <<channels, channel_fd_to_id, last_channel_id, epoll, listen_armed,
          cancel_event, is_blocking, backlog, conn, scan_steps, th, mstate,
          wire, result>>

\* ------------------------------------------------------------ descriptors
FdOpen(cn, fd) == \E c \in Conns : cn[c].st = "accepted" /\ cn[c].fd = fd

Owner(cn, fd) == CHOOSE c \in Conns : cn[c].st = "accepted" /\ cn[c].fd = fd

HasFreeFd(cn) == \E f \in Fds : ~FdOpen(cn, f)

\* accept4 returns the lowest-numbered descriptor that is not open.
LowestFreeFd(cn) ==
  CHOOSE f \in Fds : ~FdOpen(cn, f) /\ \A g \in Fds : g < f => FdOpen(cn, g)

\* Destroying the owning LocalHandle closes the socket.
ConnCloseFd(cn, fd) ==
  [c \in Conns |-> IF cn[c].st = "accepted" /\ cn[c].fd = fd
                   THEN [cn[c] EXCEPT !.st = "gone"] ELSE cn[c]]

\* ---------------------------------------------------------- channel table
\* for (;;) { if (last_channel_id_++ == max) last_channel_id_ = 1; ... }
NextChannelIdNoSkip(last, used) ==
  IF last = MaxChannelId THEN 1 ELSE last + 1

RECURSIVE NextChannelId(_, _)
NextChannelId(last, used) ==
  LET next == IF last = MaxChannelId THEN 1 ELSE last + 1
  IN IF next \notin used THEN next ELSE NextChannelId(next, used)

\* Iterations of the for (;;) loop until the free id is found.
RECURSIVE ScanSteps(_, _)
ScanSteps(last, used) ==
  LET next == IF last = MaxChannelId THEN 1 ELSE last + 1
  IN IF next \notin used THEN 1 ELSE 1 + ScanSteps(next, used)

\* The id scan terminates only when some id is free.
IdAvailable == Cardinality(DOMAIN channels) < MaxChannelId

NotArmedOnRegister == FALSE

\* event.events = EPOLLIN | EPOLLRDHUP | EPOLLONESHOT on EPOLL_CTL_ADD:
\* the new channel is armed from the moment it is registered.
ArmedOnRegister == TRUE

\* channel_fd_to_id_.emplace(fd, id): no effect when the key exists.
FdToIdEmplace(m, fd, id) ==
  IF fd \in DOMAIN m THEN m
  ELSE [f \in DOMAIN m \cup {fd} |-> IF f = fd THEN id ELSE m[f]]

\* channels_.emplace_hint(iter, id, channel_data): no effect when the key exists.
ChannelsEmplace(chs, id, data) ==
  IF id \in DOMAIN chs THEN chs
  ELSE [i \in DOMAIN chs \cup {id} |-> IF i = id THEN data ELSE chs[i]]

FdToIdEraseIfDeleted(m, fd, del_ok) ==
  IF del_ok THEN [f \in DOMAIN m \ {fd} |-> m[f]] ELSE m

\* channel_fd_to_id_.erase(channel_fd), whatever epoll_ctl(DEL) returned.
FdToIdErase(m, fd, del_ok) == [f \in DOMAIN m \ {fd} |-> m[f]]

\* channels_.erase(iter)
ChannelsErase(chs, id) == [i \in DOMAIN chs \ {id} |-> chs[i]]

\* EPOLL_CTL_DEL, and the kernel dropping a closed descriptor from the set.
EpollDel(ep, fd) == [f \in DOMAIN ep \ {fd} |-> ep[f]]

\* EPOLL_CTL_ADD
EpollAdd(ep, fd) ==
  [f \in DOMAIN ep \cup {fd} |-> IF f = fd THEN ArmedOnRegister ELSE ep[f]]

\* A handle is a descriptor number, or an invalid handle that carries a
\* negative value.
FileHandle(n) == [kind |-> "file", v |-> n]
InvalidHandle(n) == [kind |-> "invalid", v |-> n]
IsValid(h) == h.kind # "invalid"

\* A default-constructed LocalHandle / BorrowedHandle / LocalChannelHandle,
\* and what a handle holds after it was moved from.
EmptyHandle == InvalidHandle(-1)

\* ChannelData::event_set: its event descriptor, named after the socket it
\* accompanies, or an empty handle when the event set could not create one.
EventHandle(fd, event_ok) ==
  IF event_ok THEN [kind |-> "event", v |-> fd] ELSE EmptyHandle

\* OnNewChannelLocked after a successful EPOLL_CTL_ADD.
OnNewChannelLocked(fd, channel_state, event_ok) ==
  LET id == NextChannelId(last_channel_id, DOMAIN channels)
  IN /\ epoll' = EpollAdd(epoll, fd)
     /\ last_channel_id' = id
     /\ scan_steps' = ScanSteps(last_channel_id, DOMAIN channels)
     /\ channel_fd_to_id' = FdToIdEmplace(channel_fd_to_id, fd, id)
     /\ channels' = ChannelsEmplace(channels, id,
                       [data_fd |-> fd, channel_state |-> channel_state,
                        event_fd |-> EventHandle(fd, event_ok),
                        event_bits |-> {}])

CloseStatus(channel_id, del_ok) ==
  IF channel_id \notin DOMAIN channels THEN "EINVAL"
  ELSE IF del_ok THEN "OK" ELSE "ENOENT"

\* CloseChannel / CloseChannelLocked; cn is the socket state the call starts
\* from, del_ok the outcome of epoll_ctl(EPOLL_CTL_DEL).
CloseChannel(channel_id, cn, del_ok) ==
  IF channel_id \in DOMAIN channels
  THEN LET channel_fd == channels[channel_id].data_fd
       IN /\ channel_fd_to_id' = FdToIdErase(channel_fd_to_id, channel_fd, del_ok)
          /\ channels' = ChannelsErase(channels, channel_id)
          /\ epoll' = EpollDel(epoll, channel_fd)
          /\ conn' = ConnCloseFd(cn, channel_fd)
  ELSE /\ UNCHANGED <<channels, channel_fd_to_id, epoll>>
       /\ conn' = cn

\* GetChannelId
GetChannelId(fd) ==
  IF fd \in DOMAIN channel_fd_to_id THEN channel_fd_to_id[fd] ELSE NoChannelId

\* GetChannelSocketFd: an invalid handle when the id is unknown.
GetChannelSocketFd(channel_id) ==
  IF channel_id \in DOMAIN channels THEN channels[channel_id].data_fd ELSE NoFd

\* ------------------------------------------------------------- socket I/O
Pop(cn, c) == [cn EXCEPT ![c].q = Tail(@)]
ReplaceHead(cn, c, item) == [cn EXCEPT ![c].q = <<item>> \o Tail(@)]

\* A read returns at once on a closed descriptor, on queued bytes and on
\* end of stream; otherwise it blocks.
CanRecv(cn, fd) ==
  IF FdOpen(cn, fd)
  THEN cn[Owner(cn, fd)].q # <<>> \/ cn[Owner(cn, fd)].closed
  ELSE TRUE

\* ReceiveData(channel_fd, &request): the request header.
RecvHeader(cn, fd) ==
  IF ~FdOpen(cn, fd) THEN [status |-> "EBADF", item |-> "none", conn |-> cn]
  ELSE LET c == Owner(cn, fd)
           q == cn[c].q
       IN IF q = <<>>
          THEN [status |-> "ESHUTDOWN", item |-> "none", conn |-> cn]
          ELSE CASE Head(q) \in {"imp", "impn"} ->
                      [status |-> "OK", item |-> Head(q), conn |-> Pop(cn, c)]
                 [] Head(q) = "req" ->
                      [status |-> "OK", item |-> "req",
                       conn |-> ReplaceHead(cn, c, "pay")]
                 [] Head(q) = "part" ->
                      [status |-> "OK", item |-> "part",
                       conn |-> ReplaceHead(cn, c, "ppay")]
                 [] OTHER ->   \* payload bytes do not parse as a header
                      [status |-> "EIO", item |-> "none", conn |-> Pop(cn, c)]

\* ReceiveData(channel_fd, data, size): the request payload.
RecvPayload(cn, fd) ==
  IF ~FdOpen(cn, fd) THEN [status |-> "EBADF", conn |-> cn]
  ELSE LET c == Owner(cn, fd)
           q == cn[c].q
       IN IF q = <<>> THEN [status |-> "ESHUTDOWN", conn |-> cn]
          ELSE IF Head(q) = "ppay"   \* peer closed in the middle of the payload
               THEN [status |-> "EIO", conn |-> Pop(cn, c)]
               ELSE [status |-> "OK", conn |-> Pop(cn, c)]

\* SendData(channel_socket, ...)
SendStatus(cn, fd) ==
  IF ~FdOpen(cn, fd) THEN "EBADF"
  ELSE IF cn[Owner(cn, fd)].closed THEN "EPIPE" ELSE "OK"

\* -------------------------------------------------------------- readiness
ReadyChan(f) ==
  /\ f \in DOMAIN epoll
  /\ epoll[f]
  /\ FdOpen(conn, f)
  /\ CanRecv(conn, f)

ReadyListen == listen_armed /\ backlog # <<>>

ReadyCancel == cancel_event

NothingReady == ~ReadyCancel /\ ~ReadyListen /\ \A f \in Fds : ~ReadyChan(f)

\* event.events & (EPOLLRDHUP | EPOLLHUP)
HangUp(f) == conn[Owner(conn, f)].closed

\* ---------------------------------------------------------- message state
\* No message is being handled: AllocateMessageState has not run, or
\* FreeMessageState has.
NoState == [active |-> FALSE]

NoResult == [call |-> "none"]

\* ------------------------------------------------------------------- Init
Init ==
  /\ channels = <<>>
  /\ channel_fd_to_id = <<>>
  /\ last_channel_id = 0
  /\ epoll = <<>>
  /\ listen_armed = TRUE
  /\ cancel_event = FALSE
  /\ is_blocking \in BOOLEAN
  /\ backlog = <<>>
  /\ conn = [c \in Conns |-> [st |-> "new", fd |-> NoFd, q |-> <<>>,
                              closed |-> FALSE, sent |-> 0]]
  /\ scan_steps = 0
  /\ th = [w \in Workers |-> Idle]
  /\ mstate = NoState
  /\ wire = <<>>
  /\ result = NoResult

\* ------------------------------------------------------- thread positions
Returned(t, status, msg) ==
  [Idle EXCEPT !.pc = "returned", !.via = t.via, !.src = t.src,
               !.status = status, !.msg = msg]

Replied(t, status) == [t EXCEPT !.pc = "replied", !.status = status]

\* BuildCloseMessage: info.mid = GetNextAvailableMessageId()
BuildCloseMessage(channel_id) ==
  [cid |-> channel_id, op |-> "CLOSE", impulse |-> FALSE, mid |-> "next",
   send_len |-> 0]

\* The fields of the request header that ReceiveMessageForChannel branches
\* on: "imp" is an impulse with send_len = 0, "impn" an impulse whose header
\* declares send_len > 0, "req" and "part" requests with send_len > 0.
Header(item) ==
  [is_impulse |-> item \in {"imp", "impn"},
   send_len |-> IF item = "imp" THEN 0 ELSE 1]

NeedsPayloadWhenDeclared(hdr) == hdr.send_len > 0

\* if (request.send_len > 0 && !request.is_impulse)
NeedsPayload(hdr) == hdr.send_len > 0 /\ ~hdr.is_impulse

\* info.mid = request.is_impulse ? Message::IMPULSE_MESSAGE_ID
\*                               : GetNextAvailableMessageId();
MessageId(is_impulse) == IF is_impulse THEN "IMPULSE_MESSAGE_ID" ELSE "next"

\* MessageInfo filled in by ReceiveMessageForChannel
RequestMessage(channel_id, hdr) ==
  [cid |-> channel_id, op |-> "REQ", impulse |-> hdr.is_impulse,
   mid |-> MessageId(hdr.is_impulse), send_len |-> hdr.send_len]

\* The service replies to requests and close messages; an impulse is dropped
\* without a reply.
ServiceReplies(msg) == ~msg.impulse

\* MessageReceive's return on the accept path:
\*   if (!status) return status;  return ReenableEpollEvent(socket_fd_.Borrow());
ListenArmedAfter(via, status, armed) ==
  IF via = "listen" /\ status = "OK" THEN TRUE ELSE armed

Finish(w, status, msg) ==
  /\ th' = [th EXCEPT ![w] = Returned(@, status, msg)]
  /\ listen_armed' = ListenArmedAfter(th[w].via, status, listen_armed)

\* ReenableEpollEvent: EPOLL_CTL_MOD fails on a descriptor that is not in the set.
ReenableOk(fd) == fd \in DOMAIN epoll

EpollMod(ep, fd) == [ep EXCEPT ![fd] = TRUE]

\* MessageReceive never reads cancel_event_fd_: the counter stays non-zero.
CancelDrainedByWait(raised) == FALSE

CancelAfterWait(raised) == raised

PollOnceAlways(blocking) == TRUE

\* epoll_wait(..., is_blocking_ ? -1 : 0): a zero timeout returns count == 0
\* when nothing is ready.
PollOnce(blocking) == ~blocking

\* if (status.error() == ESHUTDOWN) ... else ...
IsCleanShutdown(status) == status = "ESHUTDOWN"

\* ------------------------------------------------ MessageReceive, by steps
\* epoll_wait(epoll_fd_, &event, 1, is_blocking_ ? -1 : 0) and the dispatch
\* on event.data.fd.
EpollWait(w) ==
  /\ th[w].pc = "idle"
  /\ \/ /\ ReadyCancel
        /\ th' = [th EXCEPT ![w] = Returned(@, "ESHUTDOWN", NoMsg)]
        /\ cancel_event' = CancelAfterWait(cancel_event)
        /\ UNCHANGED <<epoll, listen_armed>>
     \/ /\ ReadyListen
        /\ listen_armed' = FALSE
        /\ th' = [th EXCEPT ![w] = [Idle EXCEPT !.pc = "accept", !.via = "listen"]]
        /\ UNCHANGED <<epoll, cancel_event>>
     \/ /\ \E f \in Fds :
             /\ ReadyChan(f)
             /\ epoll' = [epoll EXCEPT ![f] = FALSE]
             /\ th' = [th EXCEPT ![w] =
                         [Idle EXCEPT !.pc = IF HangUp(f) THEN "hup" ELSE "rx_id",
                                      !.via = "chan", !.fd = f,
                                      !.src = Owner(conn, f)]]
        /\ UNCHANGED <<listen_armed, cancel_event>>
     \/ /\ NothingReady
        /\ PollOnce(is_blocking)
        /\ th' = [th EXCEPT ![w] = Returned(@, "ETIMEDOUT", NoMsg)]
        /\ UNCHANGED <<epoll, listen_armed, cancel_event>>
  /\ UNCHANGED <<channels, channel_fd_to_id, last_channel_id, is_blocking,
                 backlog, conn, scan_steps>>
  /\ UNCHANGED <<mstate, wire, result>>

\* AcceptConnection up to and including OnNewChannel.
Accept(w) ==
  /\ th[w].pc = "accept"
  /\ \/ /\ Finish(w, "EMFILE", NoMsg)                     \* accept4 fails
        /\ UNCHANGED <<channels, channel_fd_to_id, last_channel_id, epoll,
                       backlog, conn, scan_steps>>
     \/ /\ HasFreeFd(conn)            \* setsockopt or EPOLL_CTL_ADD fails:
        /\ backlog' = Tail(backlog)   \* channel_fd goes out of scope
        /\ conn' = [conn EXCEPT ![Head(backlog)].st = "gone"]
        /\ Finish(w, "ENOMEM", NoMsg)
        /\ UNCHANGED <<channels, channel_fd_to_id, last_channel_id, epoll,
                       scan_steps>>
     \/ /\ HasFreeFd(conn)
        /\ IdAvailable
        /\ LET c == Head(backlog)
               fd == LowestFreeFd(conn)
           IN /\ backlog' = Tail(backlog)
              /\ conn' = [conn EXCEPT ![c].st = "accepted", ![c].fd = fd]
              /\ OnNewChannelLocked(fd, "null", TRUE)
              /\ th' = [th EXCEPT ![w].pc = "rx_id", ![w].fd = fd, ![w].src = c]
              /\ UNCHANGED listen_armed
  /\ UNCHANGED <<cancel_event, is_blocking>>
  /\ UNCHANGED <<mstate, wire, result>>

\* ReceiveMessageForChannel: int32_t channel_id = GetChannelId(channel_fd);
RxId(w) ==
  /\ th[w].pc = "rx_id"
  /\ th' = [th EXCEPT ![w].pc = "rx_hdr", ![w].cid = GetChannelId(th[w].fd)]
  /\ UNCHANGED <<channels, channel_fd_to_id, last_channel_id, epoll,
                 listen_armed, cancel_event, is_blocking, backlog, conn, scan_steps>>
  /\ UNCHANGED <<mstate, wire, result>>

\* The two "if (!status)" blocks of ReceiveMessageForChannel.
ReceiveFailed(w, status, cn) ==
  IF IsCleanShutdown(status)
  THEN /\ conn' = cn
       /\ Finish(w, "OK", BuildCloseMessage(th[w].cid))
       /\ UNCHANGED <<channels, channel_fd_to_id, epoll>>
  ELSE /\ \E del_ok \in BOOLEAN : CloseChannel(th[w].cid, cn, del_ok)
       /\ Finish(w, status, NoMsg)

\* ReceiveMessageForChannel: the header read and what follows it when no
\* payload read is due.
RxHdr(w) ==
  /\ th[w].pc = "rx_hdr"
  /\ CanRecv(conn, th[w].fd)
  /\ LET r == RecvHeader(conn, th[w].fd)
     IN IF r.status # "OK" THEN ReceiveFailed(w, r.status, r.conn)
        ELSE IF NeedsPayload(Header(r.item))
             THEN /\ conn' = r.conn
                  /\ th' = [th EXCEPT ![w].pc = "rx_pay",
                                      ![w].msg = RequestMessage(th[w].cid, Header(r.item))]
                  /\ UNCHANGED <<channels, channel_fd_to_id, epoll, listen_armed>>
             ELSE IF Header(r.item).is_impulse
                  THEN IF ReenableOk(th[w].fd)
                       THEN /\ epoll' = EpollMod(epoll, th[w].fd)
                            /\ conn' = r.conn
                            /\ Finish(w, "OK", RequestMessage(th[w].cid, Header(r.item)))
                            /\ UNCHANGED <<channels, channel_fd_to_id>>
                       ELSE ReceiveFailed(w, "ENOENT", r.conn)
                  ELSE /\ conn' = r.conn
                       /\ Finish(w, "OK", RequestMessage(th[w].cid, Header(r.item)))
                       /\ UNCHANGED <<channels, channel_fd_to_id, epoll>>
  /\ UNCHANGED <<last_channel_id, cancel_event, is_blocking, backlog, scan_steps>>
  /\ UNCHANGED <<mstate, wire, result>>

\* ReceiveMessageForChannel: the payload read of a non-impulse request with
\* send_len > 0, and the return.
RxPay(w) ==
  /\ th[w].pc = "rx_pay"
  /\ CanRecv(conn, th[w].fd)
  /\ LET r == RecvPayload(conn, th[w].fd)
     IN IF r.status # "OK" THEN ReceiveFailed(w, r.status, r.conn)
        ELSE /\ conn' = r.conn
             /\ Finish(w, "OK", th[w].msg)
             /\ UNCHANGED <<channels, channel_fd_to_id, epoll>>
  /\ UNCHANGED <<last_channel_id, cancel_event, is_blocking, backlog, scan_steps>>
  /\ UNCHANGED <<mstate, wire, result>>

\* MessageReceive: if (event.events & (EPOLLRDHUP | EPOLLHUP))
Hup(w) ==
  /\ th[w].pc = "hup"
  /\ Finish(w, "OK", BuildCloseMessage(GetChannelId(th[w].fd)))
  /\ UNCHANGED <<channels, channel_fd_to_id, last_channel_id, epoll,
                 cancel_event, is_blocking, backlog, conn, scan_steps>>
  /\ UNCHANGED <<mstate, wire, result>>

\* ------------------------------------------------------------ the service
\* The caller takes the error, or drops the message without a reply.
Drop(w) ==
  /\ th[w].pc = "returned"
  /\ th' = [th EXCEPT ![w] = Idle]
  /\ UNCHANGED <<channels, channel_fd_to_id, last_channel_id, epoll,
                 listen_armed, cancel_event, is_blocking, backlog, conn, scan_steps>>
  /\ UNCHANGED <<mstate, wire, result>>

\* MessageReply up to the switch on the opcode.
ReplyBegin(w) ==
  /\ th[w].pc = "returned"
  /\ th[w].msg # NoMsg
  /\ ServiceReplies(th[w].msg)
  /\ LET channel_id == th[w].msg.cid
         channel_socket == GetChannelSocketFd(channel_id)
     IN IF channel_socket = NoFd
        THEN /\ th' = [th EXCEPT ![w] = Replied(@, "EBADF")]
             /\ UNCHANGED <<channels, channel_fd_to_id, epoll, conn>>
        ELSE IF th[w].msg.op = "CLOSE"
             THEN \E del_ok \in BOOLEAN :
                    /\ CloseChannel(channel_id, conn, del_ok)
                    /\ th' = [th EXCEPT ![w] =
                                Replied(@, CloseStatus(channel_id, del_ok))]
             ELSE /\ th' = [th EXCEPT ![w].pc = "reply_send",
                                      ![w].fd = channel_socket]
                  /\ UNCHANGED <<channels, channel_fd_to_id, epoll, conn>>
  /\ UNCHANGED <<last_channel_id, listen_armed, cancel_event, is_blocking,
                 backlog, scan_steps>>
  /\ UNCHANGED <<mstate, wire, result>>

\* MessageReply: SendData, then ReenableEpollEvent when the write succeeded.
ReplySend(w) ==
  /\ th[w].pc = "reply_send"
  /\ LET status == SendStatus(conn, th[w].fd)
     IN IF status # "OK"
        THEN /\ th' = [th EXCEPT ![w] = Replied(@, status)]
             /\ UNCHANGED epoll
        ELSE IF ReenableOk(th[w].fd)
             THEN /\ epoll' = EpollMod(epoll, th[w].fd)
                  /\ th' = [th EXCEPT ![w] = Replied(@, "OK")]
             ELSE /\ th' = [th EXCEPT ![w] = Replied(@, "ENOENT")]
                  /\ UNCHANGED epoll
  /\ UNCHANGED <<channels, channel_fd_to_id, last_channel_id, listen_armed,
                 cancel_event, is_blocking, backlog, conn, scan_steps>>
  /\ UNCHANGED <<mstate, wire, result>>

\* The message and its state are freed after the reply.
ReplyDone(w) ==
  /\ th[w].pc = "replied"
  /\ th' = [th EXCEPT ![w] = Idle]
  /\ UNCHANGED <<channels, channel_fd_to_id, last_channel_id, epoll,
                 listen_armed, cancel_event, is_blocking, backlog, conn, scan_steps>>
  /\ UNCHANGED <<mstate, wire, result>>

\* Endpoint::Cancel: eventfd_write(cancel_event_fd_, 1)
Cancel ==
  /\ ~cancel_event
  /\ cancel_event' = TRUE
  /\ UNCHANGED <<channels, channel_fd_to_id, last_channel_id, epoll,
                 listen_armed, is_blocking, backlog, conn, scan_steps, th>>
  /\ UNCHANGED <<mstate, wire, result>>

\* ---------------------------------------------------------------- clients
ClientConnect(c) ==
  /\ conn[c].st = "new"
  /\ Len(backlog) <= kMaxBackLogForSocketListen
  /\ conn' = [conn EXCEPT ![c].st = "pending"]
  /\ backlog' = Append(backlog, c)
  /\ UNCHANGED <<channels, channel_fd_to_id, last_channel_id, epoll,
                 listen_armed, cancel_event, is_blocking, scan_steps, th>>
  /\ UNCHANGED <<mstate, wire, result>>

RECURSIVE SumSent(_, _)
SumSent(cn, cs) ==
  IF cs = {} THEN 0
  ELSE LET c == CHOOSE x \in cs : TRUE IN cn[c].sent + SumSent(cn, cs \ {c})

TotalSent == SumSent(conn, Conns)

ClientAlive(c) == conn[c].st \in {"pending", "accepted"} /\ ~conn[c].closed

\* A whole request: "req" carries a payload (send_len > 0), "imp" is an
\* impulse, "impn" an impulse whose header declares send_len > 0.
ClientSend(c, item) ==
  /\ ClientAlive(c)
  /\ TotalSent < MaxSend
  /\ conn' = [conn EXCEPT ![c].q = Append(@, item), ![c].sent = @ + 1]
  /\ UNCHANGED <<channels, channel_fd_to_id, last_channel_id, epoll,
                 listen_armed, cancel_event, is_blocking, backlog, scan_steps, th>>
  /\ UNCHANGED <<mstate, wire, result>>

\* A request header announcing a payload, part of the payload, then close.
ClientSendPartAndClose(c) ==
  /\ ClientAlive(c)
  /\ TotalSent < MaxSend
  /\ conn' = [conn EXCEPT ![c].q = Append(@, "part"), ![c].sent = @ + 1,
                          ![c].closed = TRUE]
  /\ UNCHANGED <<channels, channel_fd_to_id, last_channel_id, epoll,
                 listen_armed, cancel_event, is_blocking, backlog, scan_steps, th>>
  /\ UNCHANGED <<mstate, wire, result>>

ClientClose(c) ==
  /\ ClientAlive(c)
  /\ conn' = [conn EXCEPT ![c].closed = TRUE]
  /\ UNCHANGED <<channels, channel_fd_to_id, last_channel_id, epoll,
                 listen_armed, cancel_event, is_blocking, backlog, scan_steps, th>>
  /\ UNCHANGED <<mstate, wire, result>>

\* ------------------------------------------------------------------- Next
Next ==
  \/ \E w \in Workers : EpollWait(w)
  \/ \E w \in Workers : Accept(w)
  \/ \E w \in Workers : RxId(w)
  \/ \E w \in Workers : RxHdr(w)
  \/ \E w \in Workers : RxPay(w)
  \/ \E w \in Workers : Hup(w)
  \/ \E w \in Workers : Drop(w)
  \/ \E w \in Workers : ReplyBegin(w)
  \/ \E w \in Workers : ReplySend(w)
  \/ \E w \in Workers : ReplyDone(w)
  \/ Cancel
  \/ \E c \in Conns : ClientConnect(c)
  \/ \E c \in Conns, item \in {"req", "imp", "impn"} : ClientSend(c, item)
  \/ \E c \in Conns : ClientSendPartAndClose(c)
  \/ \E c \in Conns : ClientClose(c)

Spec == Init /\ [][Next]_vars

\* ------------------------------------------- the channel table on its own
\* Arbitrary sequences of OnNewChannelLocked, CloseChannel, SetChannel and
\* ModifyChannelEvents calls, each atomic under channel_mutex_.  A closed
\* socket's slot is free for a new socket, so the id counter runs past its
\* maximum.
NewSocket(fd) == [st |-> "accepted", fd |-> fd, q |-> <<>>, closed |-> FALSE,
                  sent |-> 0]

TableRegister(c, channel_state, event_ok) ==
  /\ conn[c].st \in {"new", "gone"}
  /\ HasFreeFd(conn)
  /\ IdAvailable
  /\ LET fd == LowestFreeFd(conn)
     IN /\ conn' = [conn EXCEPT ![c] = NewSocket(fd)]
        /\ OnNewChannelLocked(fd, channel_state, event_ok)
  /\ result' = [call |-> "OnNewChannelLocked", status |-> "OK"]
  /\ UNCHANGED <<listen_armed, cancel_event, is_blocking, backlog, th>>
  /\ UNCHANGED <<mstate, wire>>

TableClose(channel_id) ==
  /\ \E del_ok \in BOOLEAN :
       /\ CloseChannel(channel_id, conn, del_ok)
       /\ result' = [call |-> "CloseChannel", id |-> channel_id,
                     status |-> CloseStatus(channel_id, del_ok)]
  /\ UNCHANGED <<last_channel_id, listen_armed, cancel_event, is_blocking,
                 backlog, scan_steps, th>>
  /\ UNCHANGED <<mstate, wire>>

ChannelStateKept(data, channel) == data

\* channel_data->second.channel_state = channel;
ChannelStateSet(data, channel) == [data EXCEPT !.channel_state = channel]

\* Endpoint::SetChannel
SetChannel(channel_id, channel) ==
  /\ IF channel_id \in DOMAIN channels
     THEN /\ channels' = [channels EXCEPT
                            ![channel_id] = ChannelStateSet(@, channel)]
          /\ result' = [call |-> "SetChannel", id |-> channel_id,
                        channel |-> channel, status |-> "OK"]
     ELSE /\ UNCHANGED channels
          /\ result' = [call |-> "SetChannel", id |-> channel_id,
                        channel |-> channel, status |-> "EINVAL"]
  /\ UNCHANGED <<channel_fd_to_id, last_channel_id, epoll, listen_armed,
                 cancel_event, is_blocking, backlog, conn, scan_steps, th,
                 mstate, wire>>

\* channel_data.event_set.ModifyEvents(clear_mask, set_mask)
ModifyEvents(data, clear_mask, set_mask) ==
  [data EXCEPT !.event_bits = (@ \ clear_mask) \cup set_mask]

\* Endpoint::ModifyChannelEvents
ModifyChannelEvents(channel_id, clear_mask, set_mask) ==
  /\ IF channel_id \in DOMAIN channels
     THEN /\ channels' = [channels EXCEPT
                            ![channel_id] = ModifyEvents(@, clear_mask, set_mask)]
          /\ result' = [call |-> "ModifyChannelEvents", id |-> channel_id,
                        clear_mask |-> clear_mask, set_mask |-> set_mask,
                        status |-> "OK"]
     ELSE /\ UNCHANGED channels
          /\ result' = [call |-> "ModifyChannelEvents", id |-> channel_id,
                        clear_mask |-> clear_mask, set_mask |-> set_mask,
                        status |-> "EINVAL"]
  /\ UNCHANGED <<channel_fd_to_id, last_channel_id, epoll, listen_armed,
                 cancel_event, is_blocking, backlog, conn, scan_steps, th,
                 mstate, wire>>

EventBits == {"EPOLLIN"}

TableNext ==
  \/ \E c \in Conns, channel_state \in {"null", "state"} :
       TableRegister(c, channel_state, TRUE)
  \/ \E channel_id \in 0..MaxChannelId : TableClose(channel_id)
  \/ \E channel_id \in 0..MaxChannelId, channel \in {"null", "state"} :
       SetChannel(channel_id, channel)
  \/ \E channel_id \in 0..MaxChannelId, clear_mask \in SUBSET EventBits,
        set_mask \in SUBSET EventBits :
       ModifyChannelEvents(channel_id, clear_mask, set_mask)

SpecTable == Init /\ [][TableNext]_vars

\* ------------------------------------------- the service and one message
\* struct MessageState, for the message the service is handling: the request
\* lists (inbound), the response lists (outbound), response_data (its
\* length) and sockets_to_close; replied is set once MessageReply returned.
NewState(channel_id, op, file_descriptors, request_channels) ==
  [active |-> TRUE, cid |-> channel_id, op |-> op, replied |-> FALSE,
   in_fds |-> file_descriptors, in_chs |-> request_channels,
   out_fds |-> <<>>, out_chs |-> <<>>, response_data |-> 0,
   sockets_to_close |-> <<>>]

\* ChannelInfo: a socket and the event descriptor that goes with it.
ChannelInfo(data_fd, event_fd) == [data_fd |-> data_fd, event_fd |-> event_fd]

EmptyChannelInfo == ChannelInfo(EmptyHandle, EmptyHandle)

\* The handles a peer attached to its request: descriptors numbered from 11
\* (files) and from 21 (channel sockets).
InboundFiles(n) == [i \in 1..n |-> FileHandle(10 + i)]

InboundChannels(n) ==
  [i \in 1..n |-> ChannelInfo(FileHandle(20 + i),
                               [kind |-> "event", v |-> 20 + i])]

\* state->request = std::move(request) for a message of an open channel,
\* whose readiness event the wait call has consumed.
MessageArrives(channel_id, op, nfds, nchs) ==
  /\ ~mstate.active
  /\ channel_id \in DOMAIN channels
  /\ mstate' = NewState(channel_id, op, InboundFiles(nfds), InboundChannels(nchs))
  /\ epoll' = [epoll EXCEPT ![channels[channel_id].data_fd] = FALSE]
  /\ wire' = <<>>
  /\ result' = [call |-> "MessageReceive", status |-> "OK"]
  /\ UNCHANGED <<channels, channel_fd_to_id, last_channel_id, listen_armed,
                 cancel_event, is_blocking, backlog, conn, scan_steps, th>>

\* FreeMessageState
FreeMessageState ==
  /\ mstate.active
  /\ mstate' = NoState
  /\ result' = [call |-> "FreeMessageState"]
  /\ UNCHANGED <<channels, channel_fd_to_id, last_channel_id, epoll,
                 listen_armed, cancel_event, is_blocking, backlog, conn,
                 scan_steps, th, wire>>

MovedFromCopies(list, index, empty) == list

\* The 0-based index of the C++ vectors is position index + 1 of a sequence.
MovedFrom(list, index, empty) == [list EXCEPT ![index + 1] = empty]

GetLocalFileHandleUnsigned(st, index) ==
  IF index >= 0 /\ index < Len(st.in_fds)
  THEN [ok |-> TRUE, handle |-> st.in_fds[index + 1],
        st |-> [st EXCEPT !.in_fds = MovedFrom(@, index, EmptyHandle)]]
  ELSE [ok |-> FALSE, handle |-> EmptyHandle, st |-> st]

\* MessageState::GetLocalFileHandle on a default-constructed LocalHandle.
GetLocalFileHandle(st, index) ==
  IF index < 0
  THEN [ok |-> TRUE, handle |-> InvalidHandle(index), st |-> st]
  ELSE IF index < Len(st.in_fds)
       THEN [ok |-> TRUE, handle |-> st.in_fds[index + 1],
             st |-> [st EXCEPT !.in_fds = MovedFrom(@, index, EmptyHandle)]]
       ELSE [ok |-> FALSE, handle |-> EmptyHandle, st |-> st]

\* MessageState::GetLocalChannelHandle on a default-constructed
\* LocalChannelHandle; CreateHandle names the new handle after its socket.
GetLocalChannelHandle(st, index) ==
  IF index < 0
  THEN [ok |-> TRUE, handle |-> InvalidHandle(index), st |-> st]
  ELSE IF index < Len(st.in_chs)
       THEN [ok |-> TRUE,
             handle |-> [kind |-> "channel", v |-> st.in_chs[index + 1].data_fd.v],
             st |-> [st EXCEPT !.in_chs = MovedFrom(@, index, EmptyChannelInfo)]]
       ELSE [ok |-> FALSE, handle |-> EmptyHandle, st |-> st]

\* state->GetLocalFileHandle(ref, &handle); return handle;
PullResult(r) == [handle |-> r.handle]

\* Endpoint::GetFileHandle
GetFileHandle(ref) ==
  /\ mstate.active /\ ~mstate.replied
  /\ LET r == GetLocalFileHandle(mstate, ref)
     IN /\ mstate' = r.st
        /\ result' = [call |-> "GetFileHandle", ref |-> ref,
                      ret |-> PullResult(r)]
  /\ UNCHANGED <<channels, channel_fd_to_id, last_channel_id, epoll,
                 listen_armed, cancel_event, is_blocking, backlog, conn,
                 scan_steps, th, wire>>

\* Endpoint::GetChannelHandle
GetChannelHandle(ref) ==
  /\ mstate.active /\ ~mstate.replied
  /\ LET r == GetLocalChannelHandle(mstate, ref)
     IN /\ mstate' = r.st
        /\ result' = [call |-> "GetChannelHandle", ref |-> ref,
                      ret |-> PullResult(r)]
  /\ UNCHANGED <<channels, channel_fd_to_id, last_channel_id, epoll,
                 listen_armed, cancel_event, is_blocking, backlog, conn,
                 scan_steps, th, wire>>

PushFileHandleFreshError(st, handle) ==
  IF ~IsValid(handle) THEN [ok |-> FALSE, value |-> "EBADF", st |-> st]
  ELSE [ok |-> TRUE, value |-> Len(st.out_fds),
        st |-> [st EXCEPT !.out_fds = Append(@, handle)]]

\* MessageState::PushFileHandle: the index of the pushed handle is
\* response.file_descriptors.size() - 1 after the push_back.
MessageStatePushFileHandle(st, handle) ==
  IF ~IsValid(handle) THEN [ok |-> TRUE, value |-> handle.v, st |-> st]
  ELSE [ok |-> TRUE, value |-> Len(st.out_fds),
        st |-> [st EXCEPT !.out_fds = Append(@, handle)]]

\* Endpoint::PushFileHandle(Message*, const LocalHandle& / BorrowedHandle&)
PushFileHandle(handle) ==
  /\ mstate.active /\ ~mstate.replied
  /\ Len(mstate.out_fds) < MaxRefs
  /\ LET r == MessageStatePushFileHandle(mstate, handle)
     IN /\ mstate' = r.st
        /\ result' = [call |-> "PushFileHandle", handle |-> handle,
                      ok |-> r.ok, value |-> r.value]
  /\ UNCHANGED <<channels, channel_fd_to_id, last_channel_id, epoll,
                 listen_armed, cancel_event, is_blocking, backlog, conn,
                 scan_steps, th, wire>>

\* Endpoint::WriteMessageData / MessageState::WriteData
WriteMessageData ==
  /\ mstate.active /\ ~mstate.replied
  /\ mstate.response_data < MaxData
  /\ mstate' = [mstate EXCEPT !.response_data = @ + 1]
  /\ result' = [call |-> "WriteMessageData", size |-> 1]
  /\ UNCHANGED <<channels, channel_fd_to_id, last_channel_id, epoll,
                 listen_armed, cancel_event, is_blocking, backlog, conn,
                 scan_steps, th, wire>>

\* MessageState::PushChannelHandle(BorrowedHandle data_fd, BorrowedHandle event_fd)
MessageStatePushChannelHandle(st, data_fd, event_fd) ==
  IF ~IsValid(data_fd) \/ ~IsValid(event_fd)
  THEN [ok |-> FALSE, value |-> "EINVAL", st |-> st]
  ELSE [ok |-> TRUE, value |-> Len(st.out_chs),
        st |-> [st EXCEPT !.out_chs = Append(@, ChannelInfo(data_fd, event_fd))]]

\* The far end of the socket pair whose near end is descriptor fd.
RemoteSocket(fd) == [kind |-> "remote", v |-> fd]

\* Endpoint::PushChannel.  outcome tells how far the call gets: socketpair
\* fails, setsockopt fails, EPOLL_CTL_ADD fails in OnNewChannelLocked, or the
\* retained end is registered; event_ok tells whether the new channel's event
\* set holds an event descriptor.
PushChannel(c, channel_state, outcome, event_ok) ==
  /\ mstate.active /\ ~mstate.replied
  /\ Len(mstate.out_chs) < MaxRefs
  /\ \/ /\ outcome \in {"socketpair", "setsockopt", "epoll_ctl"}
        /\ result' = [call |-> "PushChannel", ok |-> FALSE,
                      value |-> outcome, channel_id |-> NoChannelId]
        /\ UNCHANGED <<channels, channel_fd_to_id, last_channel_id, epoll,
                       conn, scan_steps, mstate>>
     \/ /\ outcome = "registered"
        /\ conn[c].st \in {"new", "gone"}
        /\ HasFreeFd(conn)
        /\ IdAvailable
        /\ LET fd == LowestFreeFd(conn)
               id == NextChannelId(last_channel_id, DOMAIN channels)
               r == MessageStatePushChannelHandle(
                      mstate, RemoteSocket(fd), EventHandle(fd, event_ok))
           IN /\ OnNewChannelLocked(fd, channel_state, event_ok)
              /\ IF r.ok
                 THEN /\ mstate' = [r.st EXCEPT !.sockets_to_close =
                                                  Append(@, RemoteSocket(fd))]
                      /\ conn' = [conn EXCEPT ![c] = NewSocket(fd)]
                 ELSE \* remote_socket is closed on return
                      /\ mstate' = mstate
                      /\ conn' = [conn EXCEPT
                                    ![c] = [NewSocket(fd) EXCEPT !.closed = TRUE]]
              /\ result' = [call |-> "PushChannel", ok |-> r.ok,
                            value |-> r.value, channel_id |-> id]
  /\ UNCHANGED <<listen_armed, cancel_event, is_blocking, backlog, th, wire>>

\* Endpoint::GetChannelEventFd
GetChannelEventFd(channel_id) ==
  IF channel_id \in DOMAIN channels THEN channels[channel_id].event_fd
  ELSE EmptyHandle

OpenReplyKeepsData(st, event_fd, return_code) ==
  LET push_status == MessageStatePushFileHandle(st, event_fd)
  IN [st |-> push_status.st, return_code |-> push_status.value]

\* MessageReply, case opcodes::CHANNEL_OPEN with return_code >= 0
OpenReply(st, event_fd, return_code) ==
  LET push_status == MessageStatePushFileHandle(st, event_fd)
  IN [st |-> [push_status.st EXCEPT !.response_data = 0],
      return_code |-> push_status.value]

PlainReply(st, event_fd, return_code) ==
  [st |-> st, return_code |-> return_code]

\* What SendData puts on the channel socket: the response header, the
\* handles it carries and the response payload.
Frame(channel_id, st, return_code) ==
  [cid |-> channel_id, ret_code |-> return_code,
   recv_len |-> st.response_data, payload |-> st.response_data,
   file_descriptors |-> st.out_fds, channels |-> st.out_chs]

ClosesOnlyCloseMessages(op, return_code) == op = "CLOSE"

\* MessageReply: the opcodes and return codes that end in CloseChannel.
ReplyCloses(op, return_code) ==
  op = "CLOSE" \/ (op = "OPEN" /\ return_code < 0)

\* Endpoint::MessageReply as one call of the service thread; send_ok is the
\* outcome of SendData.
MessageReply(return_code, send_ok) ==
  /\ mstate.active /\ ~mstate.replied
  /\ LET channel_id == mstate.cid
         channel_socket == GetChannelSocketFd(channel_id)
         r == IF mstate.op = "OPEN"
              THEN OpenReply(mstate, GetChannelEventFd(channel_id), return_code)
              ELSE PlainReply(mstate, GetChannelEventFd(channel_id), return_code)
         call == [call |-> "MessageReply", op |-> mstate.op,
                  cid |-> channel_id, return_code |-> return_code]
     IN IF channel_socket = NoFd
        THEN /\ result' = call @@ [status |-> "EBADF"]
             /\ mstate' = [mstate EXCEPT !.replied = TRUE]
             /\ UNCHANGED <<channels, channel_fd_to_id, epoll, conn, wire>>
        ELSE IF ReplyCloses(mstate.op, return_code)
             THEN /\ \E del_ok \in BOOLEAN :
                       /\ CloseChannel(channel_id, conn, del_ok)
                       /\ result' = call @@
                            [status |-> CloseStatus(channel_id, del_ok)]
                  /\ mstate' = [mstate EXCEPT !.replied = TRUE]
                  /\ UNCHANGED wire
             ELSE /\ mstate' = [r.st EXCEPT !.replied = TRUE]
                  /\ UNCHANGED <<channels, channel_fd_to_id, conn>>
                  /\ IF send_ok
                     THEN /\ wire' = Append(wire, Frame(channel_id, r.st,
                                                        r.return_code))
                          /\ IF ReenableOk(channel_socket)
                             THEN /\ epoll' = EpollMod(epoll, channel_socket)
                                  /\ result' = call @@ [status |-> "OK"]
                             ELSE /\ UNCHANGED epoll
                                  /\ result' = call @@ [status |-> "ENOENT"]
                     ELSE /\ UNCHANGED <<wire, epoll>>
                          /\ result' = call @@ [status |-> "EPIPE"]
  /\ UNCHANGED <<last_channel_id, listen_armed, cancel_event, is_blocking,
                 backlog, scan_steps, th>>

Opcodes == {"OPEN", "CLOSE", "REQ"}

ReturnCodes == {-1, 0, 1}

\* Handles the service pushes: an open descriptor and two invalid handles.
PushedHandles == {FileHandle(7), InvalidHandle(-1), InvalidHandle(-3)}

\* The service pulling and pushing references on the messages of accepted
\* channels.
RefsNext ==
  \/ \E c \in Conns : TableRegister(c, "null", TRUE)
  \/ \E channel_id \in 1..MaxChannelId, nfds \in 0..MaxRefs,
        nchs \in 0..MaxRefs : MessageArrives(channel_id, "REQ", nfds, nchs)
  \/ \E ref \in -2..MaxRefs : GetFileHandle(ref)
  \/ \E ref \in -2..MaxRefs : GetChannelHandle(ref)
  \/ \E handle \in PushedHandles : PushFileHandle(handle)
  \/ FreeMessageState

SpecRefs == Init /\ [][RefsNext]_vars

\* The service building and sending replies, and pushing new channels; every
\* connection slot is used once.
ReplyNext ==
  \/ \E c \in Conns, event_ok \in BOOLEAN :
       conn[c].st = "new" /\ TableRegister(c, "null", event_ok)
  \/ \E channel_id \in 1..MaxChannelId, op \in Opcodes :
       MessageArrives(channel_id, op, 0, 0)
  \/ PushFileHandle(FileHandle(7))
  \/ WriteMessageData
  \/ \E c \in Conns,
        outcome \in {"socketpair", "setsockopt", "epoll_ctl", "registered"},
        event_ok \in BOOLEAN :
       conn[c].st = "new" /\ PushChannel(c, "state", outcome, event_ok)
  \/ \E return_code \in ReturnCodes, send_ok \in BOOLEAN :
       MessageReply(return_code, send_ok)
  \/ FreeMessageState

SpecReply == Init /\ [][ReplyNext]_vars

\* ================================================================= claims
\* C1: after every register and every close, in any interleaving, the
\* forward map and the reverse map agree: every channel's socket maps back to
\* the channel's id, every reverse entry names a channel that owns that
\* socket, and the open channel sockets are exactly the keys of the reverse
\* map, one entry each.
C1_MapsConsistent ==
  /\ \A id \in DOMAIN channels :
       /\ channels[id].data_fd \in DOMAIN channel_fd_to_id
       /\ channel_fd_to_id[channels[id].data_fd] = id
  /\ \A fd \in DOMAIN channel_fd_to_id :
       /\ channel_fd_to_id[fd] \in DOMAIN channels
       /\ channels[channel_fd_to_id[fd]].data_fd = fd
  /\ \A fd \in Fds : FdOpen(conn, fd) <=> fd \in DOMAIN channel_fd_to_id
  /\ Cardinality(DOMAIN channels) = Cardinality(DOMAIN channel_fd_to_id)

\* A channel is open after an earlier channel was registered and closed.
C1_Witness ==
  /\ DOMAIN channels # {}
  /\ \E c \in Conns : conn[c].st = "gone"
  /\ \E id \in 1..MaxChannelId :
       id < last_channel_id /\ id \notin DOMAIN channels

\* C2: the id a registration returns (last_channel_id_ after the call) lies in
\* 1..max, is not the id of any channel that was in the table, now names the
\* newly registered socket, and every channel that was in the table is still
\* there under its id with its socket; this holds across the wrap of the
\* counter from max to 1.
C2_FreshId ==
  [][\A fd \in DOMAIN epoll' \ DOMAIN epoll :
       /\ last_channel_id' \in 1..MaxChannelId
       /\ last_channel_id' \notin DOMAIN channels
       /\ last_channel_id' \in DOMAIN channels'
       /\ channels'[last_channel_id'].data_fd = fd
       /\ channel_fd_to_id'[fd] = last_channel_id'
       /\ \A id \in DOMAIN channels :
            id \in DOMAIN channels' /\ channels'[id] = channels[id]]_vars

\* The counter wrapped past the maximum and the scan stepped over ids that
\* are still in use.
C2_Witness ==
  /\ scan_steps > 1
  /\ scan_steps >= last_channel_id
  /\ last_channel_id \in DOMAIN channels
  /\ \E id \in DOMAIN channels : id < last_channel_id

\* A wait call of w took a readiness event of c's channel and has not returned.
HoldsEvent(w, c) ==
  /\ th[w].via = "chan"
  /\ th[w].src = c
  /\ th[w].pc \in {"hup", "rx_id", "rx_hdr", "rx_pay"}

\* C3: no two waiters hold a readiness event of the same channel at the same
\* time.
C3_OneEventPerChannel ==
  \A c \in Conns : \A w1, w2 \in Workers :
    HoldsEvent(w1, c) /\ HoldsEvent(w2, c) => w1 = w2

\* w is inside ReceiveData or SendData on its descriptor.
InSocketIO(w) == th[w].pc \in {"rx_hdr", "rx_pay", "reply_send"}

\* C4: no two threads are in socket I/O (header or payload read, reply write)
\* on the same channel socket at the same time, the first read on a channel
\* that was just accepted included.
C4_NoConcurrentSocketIO ==
  \A w1, w2 \in Workers :
    (/\ w1 # w2
     /\ InSocketIO(w1)
     /\ InSocketIO(w2)
     /\ th[w1].fd = th[w2].fd) => ~FdOpen(conn, th[w1].fd)

\* v holds a message of c's channel that a wait call returned and that has
\* been neither replied to nor dropped.
MessagePending(v, c) ==
  /\ th[v].pc \in {"returned", "reply_send"}
  /\ th[v].msg # NoMsg
  /\ conn[c].st = "accepted"
  /\ th[v].msg.cid \in DOMAIN channels
  /\ channels[th[v].msg.cid].data_fd = conn[c].fd

\* C5: while a message of a channel is pending (returned by a wait call, not
\* yet replied to or dropped) no readiness event of that channel is delivered
\* to any waiter.
C5_NoEventBeforeReply ==
  [][\A w \in Workers :
       (th[w].pc = "idle" /\ th'[w].via = "chan")
         => ~\E v \in Workers : MessagePending(v, th'[w].src)]_vars

\* C6: once Cancel was called, every wait call returns ESHUTDOWN and no
\* message, whatever else is ready.
C6_WaitAfterCancelShutsDown ==
  [][\A w \in Workers :
       (cancel_event /\ th[w].pc = "idle" /\ th'[w].pc # "idle")
         => (th'[w].pc = "returned" /\ th'[w].status = "ESHUTDOWN"
             /\ th'[w].msg = NoMsg)]_vars

\* C6 (amended): the cancel signal, once raised, is never lowered by a wait
\* call or anything else; from then on no wait call times out, and a wait
\* call that finds neither the listening socket nor a channel ready returns
\* ESHUTDOWN and no message.
C6_CancelStaysRaised ==
  [][/\ cancel_event => cancel_event'
     /\ \A w \in Workers :
          (cancel_event /\ th[w].pc = "idle" /\ th'[w].pc # "idle")
            => /\ th'[w].status # "ETIMEDOUT"
               /\ (~ReadyListen /\ \A f \in Fds : ~ReadyChan(f))
                    => (th'[w].pc = "returned" /\ th'[w].status = "ESHUTDOWN"
                        /\ th'[w].msg = NoMsg)]_vars

\* Every dispatch thread has observed the shutdown condition.
C6_Witness ==
  /\ cancel_event
  /\ \A w \in Workers :
       th[w].pc = "returned" /\ th[w].status = "ESHUTDOWN" /\ th[w].msg = NoMsg

\* C7: a wait call that took the listening socket's event has re-armed the
\* listening socket when it returns, whether it succeeded or failed.
C7_ListenRearmedOnReturn ==
  [][\A w \in Workers :
       (th[w].via = "listen" /\ th[w].pc # "returned"
        /\ th'[w].pc = "returned") => listen_armed']_vars

\* C8: when a per-channel read in MessageReceive or a per-channel write in
\* MessageReply returns an error other than clean shutdown, the channel is
\* no longer in the channel table nor in the epoll set.
C8_FailedChannelTornDown ==
  [][\A w \in Workers :
       /\ (/\ th[w].pc \in {"rx_hdr", "rx_pay"}
           /\ th'[w].pc = "returned"
           /\ th'[w].status # "OK")
            => (/\ conn'[th[w].src].st = "gone"
                /\ th[w].cid \notin DOMAIN channels')
       /\ (/\ th[w].pc = "reply_send"
           /\ th'[w].pc = "replied"
           /\ th'[w].status # "OK")
            => (/\ th[w].msg.cid \notin DOMAIN channels'
                /\ th[w].fd \notin DOMAIN epoll')]_vars

\* The client of c wrote one request with its payload and closed its socket;
\* a dispatch thread holds that request, received and not yet replied to.
FirstRequestPending(c) ==
  /\ conn[c].st = "accepted"
  /\ conn[c].closed
  /\ conn[c].sent = 1
  /\ conn[c].q = <<>>
  /\ \E v \in Workers :
       /\ th[v].pc \in {"returned", "reply_send"}
       /\ th[v].msg = RequestMessage(GetChannelId(conn[c].fd), Header("req"))

\* w is inside a wait call that accepted c or took an event of c's channel.
InWaitFor(w, c) ==
  /\ th[w].src = c
  /\ th[w].pc \in {"hup", "rx_id", "rx_hdr", "rx_pay"}

AtPartialPayload(w) ==
  /\ th[w].pc = "rx_pay"
  /\ FdOpen(conn, th[w].fd)
  /\ conn[Owner(conn, th[w].fd)].q # <<>>
  /\ Head(conn[Owner(conn, th[w].fd)].q) = "ppay"

\* C10: when the peer closes after part of the announced payload, the
\* receive returns an error that is not the clean shutdown, no message is
\* handed out, and the channel is gone from the table and the epoll set.
C10_PartialPayloadFails ==
  [][\A w \in Workers :
       (AtPartialPayload(w) /\ th'[w].pc # "rx_pay")
         => (/\ th'[w].pc = "returned"
             /\ th'[w].status \notin {"OK", "ESHUTDOWN"}
             /\ th'[w].msg = NoMsg
             /\ conn'[Owner(conn, th[w].fd)].st = "gone"
             /\ th[w].cid \notin DOMAIN channels'
             /\ th[w].fd \notin DOMAIN epoll')]_vars

\* The header read of w is about to meet an impulse header.
AtImpulseHeader(w) ==
  /\ th[w].pc = "rx_hdr"
  /\ FdOpen(conn, th[w].fd)
  /\ conn[Owner(conn, th[w].fd)].q # <<>>
  /\ Head(conn[Owner(conn, th[w].fd)].q) \in {"imp", "impn"}

\* C11: a wait call that reads an impulse header, whatever send_len it
\* declares, takes nothing but the header from the socket and makes no payload
\* read, returns at once with the channel's one-shot interest armed again,
\* and hands out an impulse message that carries the reserved impulse message
\* id and the declared send_len; no reply is started for an impulse message.
C11_ImpulseHeaderOnly ==
  [][\A w \in Workers :
       /\ (AtImpulseHeader(w) /\ th'[w].pc # "rx_hdr")
            => LET c == Owner(conn, th[w].fd)
               IN /\ th'[w].pc = "returned"
                  /\ th'[w].status = "OK"
                  /\ conn'[c].q = Tail(conn[c].q)
                  /\ th[w].fd \in DOMAIN epoll'
                  /\ epoll'[th[w].fd]
                  /\ th'[w].msg.impulse
                  /\ th'[w].msg.mid = "IMPULSE_MESSAGE_ID"
                  /\ th'[w].msg.send_len = Header(Head(conn[c].q)).send_len
       /\ (th[w].pc = "returned" /\ th[w].msg.impulse)
            => th'[w].pc \in {"returned", "idle"}]_vars

\* A wait call has returned an impulse whose header declared send_len > 0,
\* and the channel is armed.
C11_Witness ==
  \E w \in Workers :
    /\ th[w].pc = "returned"
    /\ th[w].status = "OK"
    /\ th[w].msg.impulse
    /\ th[w].msg.send_len > 0
    /\ th[w].msg.mid = "IMPULSE_MESSAGE_ID"
    /\ conn[th[w].src].st = "accepted"
    /\ epoll[conn[th[w].src].fd]

\* This step is a call of the named operation.
Called(call) == result'.call = call /\ result' # result

\* Every channel other than id is in both maps as it was.
OthersKept(id) ==
  /\ \A i \in DOMAIN channels \ {id} :
       i \in DOMAIN channels' /\ channels'[i] = channels[i]
  /\ \A i \in DOMAIN channels' \ {id} : i \in DOMAIN channels
  /\ \A f \in DOMAIN channel_fd_to_id :
       channel_fd_to_id[f] # id
         => (f \in DOMAIN channel_fd_to_id'
             /\ channel_fd_to_id'[f] = channel_fd_to_id[f])
  /\ \A f \in DOMAIN channel_fd_to_id' : f \in DOMAIN channel_fd_to_id

\* C17: CloseChannel on a known id leaves neither the id in channels_ nor its
\* socket in channel_fd_to_id_, also when EPOLL_CTL_DEL failed, and its
\* result is then that failure; on an unknown id it returns EINVAL and both
\* maps are as before; the entries of other channels are never changed.
C17_CloseErasesBothEntries ==
  [][Called("CloseChannel") =>
       LET id == result'.id
       IN /\ OthersKept(id)
          /\ IF id \in DOMAIN channels
             THEN /\ id \notin DOMAIN channels'
                  /\ channels[id].data_fd \notin DOMAIN channel_fd_to_id'
                  /\ result'.status \in {"OK", "ENOENT"}
                  /\ result'.status = "ENOENT"
                       => channels[id].data_fd \notin DOMAIN epoll'
             ELSE /\ result'.status = "EINVAL"
                  /\ UNCHANGED <<channels, channel_fd_to_id>>]_vars

\* A close whose deregistration failed has erased the channel while another
\* channel stays in the table.
C17_Witness ==
  /\ result.call = "CloseChannel"
  /\ result.status = "ENOENT"
  /\ result.id \notin DOMAIN channels
  /\ DOMAIN channels # {}
  /\ Cardinality(DOMAIN channel_fd_to_id) = Cardinality(DOMAIN channels)

\* C18: SetChannel and ModifyChannelEvents leave the set of channels, every
\* channel's id and socket, the reverse map, the epoll set and the sockets as
\* they were; on a known id they succeed and change nothing but that
\* channel's attached state (to the state passed in) or its event bits; on an
\* unknown id they return EINVAL and change nothing.
C18_AttributesOnly ==
  [][(Called("SetChannel") \/ Called("ModifyChannelEvents")) =>
       LET id == result'.id
       IN /\ DOMAIN channels' = DOMAIN channels
          /\ \A i \in DOMAIN channels :
               channels'[i].data_fd = channels[i].data_fd
          /\ UNCHANGED <<channel_fd_to_id, last_channel_id, epoll, conn>>
          /\ OthersKept(id)
          /\ IF id \in DOMAIN channels
             THEN /\ result'.status = "OK"
                  /\ result'.call = "SetChannel"
                       => /\ channels'[id].channel_state = result'.channel
                          /\ channels'[id] =
                               [channels[id] EXCEPT
                                  !.channel_state = result'.channel]
                  /\ result'.call = "ModifyChannelEvents"
                       => channels'[id] =
                            [channels[id] EXCEPT
                               !.event_bits = channels'[id].event_bits]
             ELSE /\ result'.status = "EINVAL"
                  /\ UNCHANGED channels]_vars

\* A state was attached to one of two open channels whose event bits had been
\* modified before.
C18_Witness ==
  /\ result.call = "SetChannel"
  /\ result.status = "OK"
  /\ result.id \in DOMAIN channels
  /\ channels[result.id].channel_state = "state"
  /\ channels[result.id].event_bits # {}
  /\ Cardinality(DOMAIN channels) = 2

\* C16: a wait call on a non-blocking endpoint that finds nothing ready
\* returns ETIMEDOUT and no message and leaves the channel table, the arming
\* of every channel and of the listening socket, and the cancel signal as
\* they were; no other wait call returns ETIMEDOUT.
C16_TimeoutWhenNothingReady ==
  [][\A w \in Workers :
       (th[w].pc = "idle" /\ th'[w].pc # "idle")
         => /\ (~is_blocking /\ NothingReady)
                 => /\ th'[w].pc = "returned"
                    /\ th'[w].status = "ETIMEDOUT"
                    /\ th'[w].msg = NoMsg
                    /\ UNCHANGED <<channels, channel_fd_to_id, epoll,
                                   listen_armed, cancel_event, conn>>
            /\ th'[w].status = "ETIMEDOUT"
                 => (~is_blocking /\ NothingReady)]_vars

\* A wait call timed out while a channel is registered and not ready.
C16_Witness ==
  \E w \in Workers :
    /\ th[w].pc = "returned"
    /\ th[w].status = "ETIMEDOUT"
    /\ th[w].msg = NoMsg
    /\ DOMAIN channels # {}
    /\ NothingReady

\* This step is a MessageReply call for a message of opcode op.
Replying(op) ==
  /\ Called("MessageReply")
  /\ result'.op = op
  /\ mstate.cid \in DOMAIN channels

\* The frame the step put on the wire.
Written == wire'[Len(wire')]

\* C12: a reply to a CHANNEL_OPEN message with a return code >= 0 that is
\* sent carries no payload and exactly one file reference, the channel's
\* event handle; its return code is the index of that reference; the channel
\* stays in the table and is armed again.
C12_OpenReplySingleReference ==
  [][(Replying("OPEN") /\ result'.return_code >= 0 /\ result'.status = "OK")
       => /\ Len(wire') = Len(wire) + 1
          /\ Written.recv_len = 0
          /\ Written.payload = 0
          /\ Written.file_descriptors = <<channels[mstate.cid].event_fd>>
          /\ Written.ret_code = 0
          /\ mstate.cid \in DOMAIN channels'
          /\ epoll'[channels[mstate.cid].data_fd]]_vars

\* C12 (amended): a reply to a CHANNEL_OPEN message with a return code >= 0
\* discards the queued response payload and leaves the channel in the table
\* unchanged.  A valid event handle is appended to the outbound file list,
\* after the references the service pushed before, and its index (the number
\* of those references) replaces the service's code; an invalid event handle
\* is not appended and its own negative value replaces the service's code.
\* When the write succeeds that frame is on the wire and the channel is
\* armed again; when it fails nothing is written and nothing is armed.
C12_OpenReplyAppendsEventHandle ==
  [][(Replying("OPEN") /\ result'.return_code >= 0)
       => LET event_fd == channels[mstate.cid].event_fd
              data_fd == channels[mstate.cid].data_fd
          IN /\ mstate'.response_data = 0
             /\ UNCHANGED <<channels, channel_fd_to_id>>
             /\ IF IsValid(event_fd)
                THEN mstate'.out_fds = Append(mstate.out_fds, event_fd)
                ELSE mstate'.out_fds = mstate.out_fds
             /\ result'.status \in {"OK", "EPIPE"}
             /\ result'.status = "OK"
                  => /\ Len(wire') = Len(wire) + 1
                     /\ Written.recv_len = 0
                     /\ Written.payload = 0
                     /\ Written.file_descriptors = mstate'.out_fds
                     /\ Written.ret_code =
                          IF IsValid(event_fd) THEN Len(mstate.out_fds)
                          ELSE event_fd.v
                     /\ epoll'[data_fd]
             /\ result'.status = "EPIPE" => UNCHANGED <<wire, epoll>>]_vars

\* A CHANNEL_OPEN reply went out whose event handle is the second reference,
\* with return code 1, and the channel is open and armed.
C12_Witness ==
  /\ result.call = "MessageReply"
  /\ result.op = "OPEN"
  /\ result.status = "OK"
  /\ result.return_code = 0
  /\ result.cid \in DOMAIN channels
  /\ epoll[channels[result.cid].data_fd]
  /\ Len(wire) = 1
  /\ wire[1].ret_code = 1
  /\ Len(wire[1].file_descriptors) = 2
  /\ wire[1].file_descriptors[2] = channels[result.cid].event_fd

\* C13: a reply to a CHANNEL_CLOSE message, whatever the return code, or to a
\* CHANNEL_OPEN message with a negative return code removes the channel from
\* both maps and from the epoll set, writes nothing to the wire, arms nothing
\* and leaves the other channels alone.
C13_CloseReplyWritesNothing ==
  [][((Replying("CLOSE") \/ (Replying("OPEN") /\ result'.return_code < 0)))
       => LET data_fd == channels[mstate.cid].data_fd
          IN /\ mstate.cid \notin DOMAIN channels'
             /\ data_fd \notin DOMAIN channel_fd_to_id'
             /\ data_fd \notin DOMAIN epoll'
             /\ \A f \in DOMAIN epoll' : epoll'[f] = epoll[f]
             /\ OthersKept(mstate.cid)
             /\ wire' = wire
             /\ mstate'.out_fds = mstate.out_fds
             /\ result'.status \in {"OK", "ENOENT"}]_vars

\* A CHANNEL_OPEN message with queued response data was answered with a
\* negative code: its channel is gone and nothing is on the wire.
C13_Witness ==
  /\ result.call = "MessageReply"
  /\ result.op = "OPEN"
  /\ result.return_code < 0
  /\ result.status = "OK"
  /\ result.cid \notin DOMAIN channels
  /\ mstate.active
  /\ mstate.response_data > 0
  /\ wire = <<>>
  /\ DOMAIN channels # {}

\* This step pulls a reference.
Pulling == Called("GetFileHandle") \/ Called("GetChannelHandle")

InboundLength ==
  IF result'.call = "GetFileHandle" THEN Len(mstate.in_fds)
  ELSE Len(mstate.in_chs)

\* C14: pulling a negative file or channel reference returns an invalid
\* handle that carries that value, and the message state, the inbound lists
\* included, is as before.
C14_NegativeReferencePassesThrough ==
  [][(Pulling /\ result'.ref < 0)
       => /\ result'.ret.handle = InvalidHandle(result'.ref)
          /\ mstate' = mstate]_vars

\* A negative channel reference was pulled from a message that carries
\* inbound files and channels.
C14_Witness ==
  /\ result.call = "GetChannelHandle"
  /\ result.ref = -2
  /\ result.ret.handle.v = -2
  /\ mstate.active
  /\ Len(mstate.in_fds) = MaxRefs
  /\ Len(mstate.in_chs) = MaxRefs
  /\ \A i \in 1..MaxRefs : IsValid(mstate.in_fds[i])

\* C15: pulling a file or channel reference >= the length of the inbound
\* list gives the caller an invalid-argument error, and the message state is
\* as before.
C15_OutOfRangeReportsEINVAL ==
  [][(Pulling /\ result'.ref >= InboundLength)
       => /\ result'.ret.handle = InvalidHandle(-EINVAL)
          /\ mstate' = mstate]_vars

\* This step pushes a file handle.
Pushing == Called("PushFileHandle")

\* C20: pushing a valid file handle appends it to the outbound file list and
\* returns the length the list had before, so earlier indices keep their
\* handles; pushing an invalid handle returns the value the handle carries
\* and the message state is as before.  Neither reports an error.
C20_PushReturnsIndex ==
  [][Pushing
       => /\ result'.ok
          /\ IF IsValid(result'.handle)
             THEN /\ mstate'.out_fds = Append(mstate.out_fds, result'.handle)
                  /\ result'.value = Len(mstate.out_fds)
                  /\ mstate' = [mstate EXCEPT !.out_fds = mstate'.out_fds]
             ELSE /\ result'.value = result'.handle.v
                  /\ mstate' = mstate]_vars

\* A second valid handle was pushed and got index 1.
C20_Witness ==
  /\ result.call = "PushFileHandle"
  /\ IsValid(result.handle)
  /\ result.value = 1
  /\ mstate.active
  /\ Len(mstate.out_fds) = 2

\* C19: a PushChannel call that succeeds adds exactly one channel, under a
\* fresh id and bound to the state passed in, appends exactly one reference
\* (the far socket and the new channel's event handle) to the outbound
\* channel list, returns that reference's index and records the far socket
\* in sockets_to_close; a PushChannel call that fails leaves the channel
\* table, the epoll set and the message state as they were.
C19_PushChannelAllOrNothing ==
  [][Called("PushChannel")
       => IF result'.ok
          THEN LET id == result'.channel_id
                   ref == ChannelInfo(RemoteSocket(channels'[id].data_fd),
                                      channels'[id].event_fd)
               IN /\ id \in 1..MaxChannelId
                  /\ id \notin DOMAIN channels
                  /\ DOMAIN channels' = DOMAIN channels \cup {id}
                  /\ OthersKept(id)
                  /\ channels'[id].channel_state = "state"
                  /\ channel_fd_to_id'[channels'[id].data_fd] = id
                  /\ mstate'.out_chs = Append(mstate.out_chs, ref)
                  /\ result'.value = Len(mstate.out_chs)
                  /\ mstate'.sockets_to_close =
                       Append(mstate.sockets_to_close, ref.data_fd)
                  /\ mstate'.out_fds = mstate.out_fds
          ELSE UNCHANGED <<channels, channel_fd_to_id, epoll, mstate>>]_vars

\* This step pulls file reference ref, which is within the inbound list.
PullingInRange ==
  /\ Called("GetFileHandle")
  /\ result'.ref >= 0
  /\ result'.ref < Len(mstate.in_fds)

\* C23: an inbound file reference within the list resolves to the handle
\* that was received at most once.  A pull returns what the list holds at
\* that index, the received handle or the empty handle, and leaves the empty
\* handle there; while the message lasts an emptied entry stays empty, the
\* list keeps its length and an entry changes only by a pull of its index.
C23_InboundFileResolvesOnce ==
  [][/\ PullingInRange
          => LET i == result'.ref + 1
                 received == InboundFiles(Len(mstate.in_fds))
             IN /\ result'.ret.handle = mstate.in_fds[i]
                /\ mstate.in_fds[i] \in {received[i], EmptyHandle}
                /\ mstate'.in_fds = [mstate.in_fds EXCEPT ![i] = EmptyHandle]
                /\ mstate' = [mstate EXCEPT !.in_fds = mstate'.in_fds]
     /\ (mstate.active /\ mstate'.active)
          => /\ Len(mstate'.in_fds) = Len(mstate.in_fds)
             /\ \A i \in 1..Len(mstate.in_fds) :
                  \/ mstate'.in_fds[i] = mstate.in_fds[i]
                  \/ /\ PullingInRange
                     /\ result'.ref = i - 1
                     /\ mstate'.in_fds[i] = EmptyHandle]_vars

\* The first of two inbound files was pulled a second time: the pull gave
\* the empty handle, and the second file is still in the list.
C23_Witness ==
  /\ result.call = "GetFileHandle"
  /\ result.ref = 0
  /\ result.ret.handle = EmptyHandle
  /\ mstate.active
  /\ Len(mstate.in_fds) = 2
  /\ mstate.in_fds[1] = EmptyHandle
  /\ mstate.in_fds[2] = InboundFiles(2)[2]

\* This step is w's header read meeting the end of the stream of a peer that
\* closed its socket.
MeetsShutdown(w) ==
  /\ th[w].pc = "rx_hdr"
  /\ th'[w].pc = "returned"
  /\ RecvHeader(conn, th[w].fd).status = "ESHUTDOWN"

\* w's wait call accepted a connection whose client wrote nothing and
\* returned a close message for it: on the accept path no event is examined
\* for a hang-up and no header arrived, so the message was built when the
\* header read met the shutdown.
HoldsShutdownClose(w) ==
  /\ th[w].pc = "returned"
  /\ th[w].via = "listen"
  /\ th[w].status = "OK"
  /\ th[w].msg.op = "CLOSE"
  /\ conn[th[w].src].sent = 0

\* C21: a header read that meets a clean peer shutdown makes the wait call
\* return success with a CHANNEL_CLOSE message for the channel and neither
\* closes nor arms the channel; while the service holds that message the
\* channel stays in the table, and the reply to the message removes it.
C21_ChannelKeptUntilCloseReply ==
  [][\A w \in Workers :
       /\ MeetsShutdown(w)
            => /\ th'[w].status = "OK"
               /\ th'[w].msg = BuildCloseMessage(th[w].cid)
               /\ th[w].cid \in DOMAIN channels'
               /\ UNCHANGED <<channels, channel_fd_to_id, epoll>>
       /\ HoldsShutdownClose(w)
            => th[w].msg.cid \in DOMAIN channels
       /\ (HoldsShutdownClose(w) /\ th'[w].pc = "replied")
            => /\ th[w].msg.cid \notin DOMAIN channels'
               /\ th'[w].status \in {"OK", "ENOENT"}]_vars

\* C22: a wait call that returns success with a message returns the id of a
\* channel that is in the channel table at that moment, and never the
\* not-found id.
C22_ReturnedIdIsInTable ==
  [][\A w \in Workers :
       (/\ th[w].pc # "returned"
        /\ th'[w].pc = "returned"
        /\ th'[w].status = "OK"
        /\ th'[w].msg # NoMsg)
         => /\ th'[w].msg.cid # NoChannelId
            /\ th'[w].msg.cid \in DOMAIN channels']_vars

====
